---------------------------- MODULE Spec2Model ----------------------------
(***************************************************************************)
(* A model of pyworks' git_diff.py: the subprocess adapter                 *)
(* (GitDiffSubprocess), the terminal and document renderers (GitDiffCLI),  *)
(* compare_commits_quick, get_recent_commits and main; and of the todo     *)
(* services of web_server.py (create_flask_app, create_fastapi_app).       *)
(*                                                                         *)
(* Text is a sequence of one-character strings (longer literal pieces of a *)
(* template are kept as one element).  Python's None is the empty          *)
(* sequence <<>> and a present value v is <<v>>.                           *)
(***************************************************************************)
EXTENDS Integers, Sequences, FiniteSets, TLC

(***************************************************************************)
(* Bounds of the model.                                                    *)
(***************************************************************************)
\* most name-status lines in one backend response (parser specification)
MaxLines == 3
\* most changes in one backend response (quick-summary specification)
MaxChanges == 15
\* most lines in one diff (full-diff specification)
MaxDiffLines == 2
\* most todos in a service's list (todo-service specification)
MaxTodos == 4

(***************************************************************************)
(* Python string operations.                                               *)
(***************************************************************************)
Whitespace == {" ", "\t", "\n"}

MinOf(S) == CHOOSE x \in S : \A y \in S : x <= y
MaxOf(S) == CHOOSE x \in S : \A y \in S : y <= x

\* str.strip(): leading and trailing whitespace removed
Strip(s) ==
    LET keep == {i \in 1..Len(s) : s[i] \notin Whitespace}
    IN  IF keep = {} THEN <<>> ELSE SubSeq(s, MinOf(keep), MaxOf(keep))

\* str.split(sep) for a one-character sep: always at least one part
RECURSIVE Split(_, _)
Split(s, sep) ==
    LET at == {i \in 1..Len(s) : s[i] = sep}
    IN  IF at = {} THEN <<s>>
        ELSE <<SubSeq(s, 1, MinOf(at) - 1)>>
             \o Split(SubSeq(s, MinOf(at) + 1, Len(s)), sep)

\* str.split(sep, 1)
Split1(s, sep) ==
    LET at == {i \in 1..Len(s) : s[i] = sep}
    IN  IF at = {} THEN <<s>>
        ELSE <<SubSeq(s, 1, MinOf(at) - 1), SubSeq(s, MinOf(at) + 1, Len(s))>>

\* s[:n]
Take(s, n) == SubSeq(s, 1, IF Len(s) < n THEN Len(s) ELSE n)

\* str.lower() on the letters the prompts' answers use
LowerChar(c) == IF c = "Y" THEN "y" ELSE IF c = "E" THEN "e" ELSE IF c = "S" THEN "s" ELSE c
Lower(s) == [i \in 1..Len(s) |-> LowerChar(s[i])]

\* the concatenation of a sequence of texts
RECURSIVE Concat(_)
Concat(ss) == IF ss = <<>> THEN <<>> ELSE Head(ss) \o Concat(Tail(ss))

(***************************************************************************)
(* The backend's answer to one query: subprocess.run(..., check=True)      *)
(* raises CalledProcessError exactly when rc # 0.                          *)
(***************************************************************************)
Response(rc, stdout) == [rc |-> rc, stdout |-> stdout]
ProcError == Response(128, <<>>)

(***************************************************************************)
(* GitDiffSubprocess.  Each operator maps the backend's response to the    *)
(* outcome of the call: tag "ok" (val is the return value), or tag "raise" *)
(* (an exception other than CalledProcessError leaves the method).         *)
(* diag is TRUE when the method printed its "Error getting ..." line.      *)
(***************************************************************************)
Returned(v, diag) == [tag |-> "ok", val |-> v, diag |-> diag, exc |-> ""]
Raised(exc) == [tag |-> "raise", val |-> <<>>, diag |-> FALSE, exc |-> exc]

get_commit_info(resp) ==
    IF resp.rc # 0 THEN Returned(<<>>, TRUE)
    ELSE LET parts == Split(Strip(resp.stdout), "|")
         IN  IF Len(parts) < 5 THEN Raised("IndexError")
             ELSE Returned(<<[hash |-> parts[1], author |-> parts[2],
                              email |-> parts[3], date |-> parts[4],
                              message |-> parts[5]]>>, FALSE)

get_diff_stats(resp) ==
    IF resp.rc # 0 THEN Returned(<<>>, TRUE) ELSE Returned(<<resp.stdout>>, FALSE)

get_full_diff(resp) ==
    IF resp.rc # 0 THEN Returned(<<>>, TRUE) ELSE Returned(<<resp.stdout>>, FALSE)

Added == <<"A", "d", "d", "e", "d">>
Modified == <<"M", "o", "d", "i", "f", "i", "e", "d">>
Deleted == <<"D", "e", "l", "e", "t", "e", "d">>
Renamed == <<"R", "e", "n", "a", "m", "e", "d">>
Copied == <<"C", "o", "p", "i", "e", "d">>

\* status_map.get(status, status)
status_map(status) ==
    IF status = <<"A">> THEN Added
    ELSE IF status = <<"M">> THEN Modified
    ELSE IF status = <<"D">> THEN Deleted
    ELSE IF status = <<"R">> THEN Renamed
    ELSE IF status = <<"C">> THEN Copied
    ELSE status

\* the loop body of get_diff_summary for one non-empty line; <<>> stands for
\* the IndexError of parts[1]
ParseChangeLine(line) ==
    LET parts == Split(line, "\t")
    IN  IF Len(parts) < 2 THEN <<>>
        ELSE <<[status |-> status_map(parts[1]), file |-> parts[2]]>>

NonEmptyLines(text) == SelectSeq(Split(Strip(text), "\n"), LAMBDA l : l # <<>>)

\* the process error propagated to the caller instead of being caught
get_diff_summary_Propagates(resp) ==
    IF resp.rc # 0 THEN Raised("CalledProcessError")
    ELSE LET lines == NonEmptyLines(resp.stdout)
         IN  IF \E i \in 1..Len(lines) : ParseChangeLine(lines[i]) = <<>>
             THEN Raised("IndexError")
             ELSE Returned([i \in 1..Len(lines) |-> ParseChangeLine(lines[i])[1]],
                           FALSE)

get_diff_summary(resp) ==
    IF resp.rc # 0 THEN Returned(<<>>, TRUE)
    ELSE LET lines == NonEmptyLines(resp.stdout)
         IN  IF \E i \in 1..Len(lines) : ParseChangeLine(lines[i]) = <<>>
             THEN Raised("IndexError")
             ELSE Returned([i \in 1..Len(lines) |-> ParseChangeLine(lines[i])[1]],
                           FALSE)

\* get_recent_commits' parsing of the log response
ParseLogLine(line) ==
    LET parts == Split1(line, "|")
    IN  [hash |-> parts[1], message |-> IF Len(parts) > 1 THEN parts[2] ELSE <<>>]

get_recent_commits(resp) ==
    IF resp.rc # 0 THEN Returned(<<>>, TRUE)
    ELSE LET lines == NonEmptyLines(resp.stdout)
         IN  Returned([i \in 1..Len(lines) |-> ParseLogLine(lines[i])], FALSE)

(***************************************************************************)
(* Program constants.                                                      *)
(***************************************************************************)
\* commit[:8], the short form of an identifier
ShortLen == 8
\* changes[:10] in compare_commits_quick
QuickLimit == 10
\* get_recent_commits(repo_path, 5) in main
RecentCount == 5
\* {change['status']:<10}
StatusWidth == 10

Digit(i) == <<"0", "1", "2", "3", "4", "5", "6", "7", "8", "9">>[(i % 10) + 1]

\* str(n) for n >= 0
RECURSIVE NumText(_)
NumText(n) == IF n < 10 THEN <<Digit(n)>> ELSE Append(NumText(n \div 10), Digit(n))

(***************************************************************************)
(* What the program does at the terminal and at the backend, in order: one *)
(* event per print, prompt, line read and backend query.                   *)
(***************************************************************************)
Out(k, a) == [ev |-> "print", k |-> k, a |-> a]
Prompt(k) == [ev |-> "prompt", k |-> k, a |-> <<>>]
Read(line) == [ev |-> "read", k |-> "input", a |-> <<line>>]
Query(op, args) == [ev |-> "query", k |-> op, a |-> args]

\* the "Error getting ..." line a query method prints when it catches
\* CalledProcessError
Diag(op, r) == IF r.diag THEN <<Out("Error getting", <<<<op>>>>)>> ELSE <<>>

\* f"{s:<10}": padded with spaces on the right, never cut
RECURSIVE LJust(_, _)
LJust(s, w) == IF Len(s) >= w THEN s ELSE LJust(Append(s, " "), w)

\* GitDiffCLI.display_commit_info
display_commit_info(commit_info) ==
    IF commit_info = <<>> THEN <<>>
    ELSE LET c == commit_info[1]
         IN  << Out("Commit:", <<Take(c.hash, ShortLen)>>),
                Out("Author:", <<c.author, c.email>>),
                Out("Date:", <<c.date>>),
                Out("Message:", <<c.message>>),
                Out("------", <<>>) >>

status_icons(status) ==
    IF status = Added THEN "icon-added"
    ELSE IF status = Modified THEN "icon-modified"
    ELSE IF status = Deleted THEN "icon-deleted"
    ELSE IF status = Renamed THEN "icon-renamed"
    ELSE IF status = Copied THEN "icon-copied"
    ELSE "icon-unknown"

\* the table printed last change first
display_diff_summary_Reversed(changes) ==
    IF changes = <<>> THEN <<Out("No changes found.", <<>>)>>
    ELSE << Out("Summary:", <<NumText(Len(changes))>>), Out("======", <<>>) >>
         \o [i \in 1..Len(changes) |->
                Out("change", << <<status_icons(changes[Len(changes) + 1 - i].status)>>,
                                   LJust(changes[Len(changes) + 1 - i].status, StatusWidth),
                                   changes[Len(changes) + 1 - i].file >>)]

\* GitDiffCLI.display_diff_summary
display_diff_summary(changes) ==
    IF changes = <<>> THEN <<Out("No changes found.", <<>>)>>
    ELSE << Out("Summary:", <<NumText(Len(changes))>>), Out("======", <<>>) >>
         \o [i \in 1..Len(changes) |->
                Out("change", << <<status_icons(changes[i].status)>>,
                                   LJust(changes[i].status, StatusWidth),
                                   changes[i].file >>)]

\* str.startswith
StartsWith(line, prefix) ==
    Len(line) >= Len(prefix) /\ SubSeq(line, 1, Len(prefix)) = prefix

\* the file-header lines left uncoloured
LineColour_NoHeaders(line) ==
    IF StartsWith(line, <<"+", "+", "+">>) THEN "plain"
    ELSE IF StartsWith(line, <<"-", "-", "-">>) THEN "plain"
    ELSE IF StartsWith(line, <<"+">>) THEN "green"
    ELSE IF StartsWith(line, <<"-">>) THEN "red"
    ELSE IF StartsWith(line, <<"@", "@">>) THEN "cyan"
    ELSE "plain"

\* the colour display_full_diff gives one line: the first matching prefix
LineColour(line) ==
    IF StartsWith(line, <<"+", "+", "+">>) THEN "green"
    ELSE IF StartsWith(line, <<"-", "-", "-">>) THEN "red"
    ELSE IF StartsWith(line, <<"+">>) THEN "green"
    ELSE IF StartsWith(line, <<"-">>) THEN "red"
    ELSE IF StartsWith(line, <<"@", "@">>) THEN "cyan"
    ELSE "plain"

\* GitDiffCLI.display_full_diff; diff_content is None (<<>>) or <<text>>
display_full_diff(diff_content) ==
    IF diff_content = <<>> \/ diff_content[1] = <<>>
    THEN <<Out("No diff content available.", <<>>)>>
    ELSE LET lines == Split(diff_content[1], "\n")
         IN  << Out("Full Diff:", <<>>), Out("======", <<>>) >>
             \o [i \in 1..Len(lines) |->
                    Out("diff", << <<LineColour(lines[i])>>, lines[i] >>)]

(***************************************************************************)
(* The document save_diff_report writes: one operator per f.write group.   *)
(* The element "fence" is the three-backquote line of a preformatted       *)
(* region.                                                                 *)
(***************************************************************************)
ReportHeader(commit1, commit2) ==
    << "# Git Diff Report\n\n", "**Generated:** ", "now", "\n", "**Commits:** " >>
    \o commit1 \o <<" -> ">> \o commit2 \o <<"\n\n">>

\* a heading and a placeholder written for a commit that is absent
CommitSection_Placeholder(title, info) ==
    IF info = <<>> THEN <<title, "- unavailable\n\n">>
    ELSE <<title, "- **Hash:** ">> \o info[1].hash
         \o <<"\n", "- **Author:** ">> \o info[1].author
         \o <<"\n", "- **Message:** ">> \o info[1].message \o <<"\n\n">>

CommitSection(title, info) ==
    IF info = <<>> THEN <<>>
    ELSE <<title, "- **Hash:** ">> \o info[1].hash
         \o <<"\n", "- **Author:** ">> \o info[1].author
         \o <<"\n", "- **Message:** ">> \o info[1].message \o <<"\n\n">>

\* the two fields written in the other order
RenderChangeLine_Swapped(change) ==
    <<"-", " ", "*", "*">> \o change.file \o <<":", "*", "*", " ">>
    \o change.status \o <<"\n">>

\* f"- **{change['status']}:** {change['file']}\n"
RenderChangeLine(change) ==
    <<"-", " ", "*", "*">> \o change.status \o <<":", "*", "*", " ">>
    \o change.file \o <<"\n">>

ChangesSection(changes) ==
    IF changes = <<>> THEN <<>>
    ELSE <<"## Changes Summary\n\n">>
         \o Concat([i \in 1..Len(changes) |-> RenderChangeLine(changes[i])])
         \o <<"\n">>

StatsSection(stats) ==
    IF stats = <<>> \/ stats[1] = <<>> THEN <<>>
    ELSE <<"## Statistics\n\n", "fence", "\n">> \o stats[1] \o <<"\n", "fence", "\n\n">>

FullDiffSection(full_diff) ==
    IF full_diff = <<>> \/ full_diff[1] = <<>> THEN <<>>
    ELSE <<"## Full Diff\n\n", "fence", "diff\n">> \o full_diff[1] \o <<"\n", "fence", "\n">>

(***************************************************************************)
(* The state.                                                              *)
(*   argv     sys.argv (empty when save_diff_report is called directly)    *)
(*   pc       where the program is                                         *)
(*   backend  what the repository answers to each query of this run        *)
(*   trace    prints, prompts, lines read and backend queries, in order    *)
(*   file     the report path: <<>> (no file) or <<content>>               *)
(*   env      the locals: inputs, the outcome of each query made for the   *)
(*            terminal (d) and for the document (s), save_diff_report's    *)
(*            return value (ret) and what the path held at the start       *)
(*            (file0)                                                      *)
(*   exit     the process' exit status, -1 while it runs                   *)
(***************************************************************************)
VARIABLES argv, pc, backend, trace, file, env, exit

vars == <<argv, pc, backend, trace, file, env, exit>>

(***************************************************************************)
(* Inputs.                                                                 *)
(***************************************************************************)
Prog == <<"git_diff.py">>
RepoFlag == <<"--repo">>
RepoPathArg == <<"/", "r">>
RefA == <<"a", "b", "c", "1", "2", "3">>
RefB == <<"d", "e", "f", "4", "5", "6", "7", "8", "9">>
HashA == <<"a", "b", "c", "1", "2", "3", "0", "0", "0", "0">>
HashB == <<"d", "e", "f", "4", "5", "6", "7", "8", "9", "0">>

ArgvShapes ==
    { <<Prog>>,
      <<Prog, RefA, RefB>>,
      <<Prog, RepoFlag, RepoPathArg>>,
      <<Prog, RepoFlag, RepoPathArg, RefA>>,
      <<Prog, RefA>>,
      <<Prog, RepoFlag>>,
      <<Prog, RefA, RefB, RepoPathArg>>,
      <<Prog, RefA, RefB, RefA, RefB>> }

RepoInputs == { <<>>, <<"r">> }
RefInputs1 == { <<>>, <<" ">>, RefA }
RefInputs2 == { <<>>, <<" ">>, RefB }
OfferInputs == { <<>>, <<"Y">>, <<"y", "e", "s">> }

\* "hash|author|email|date|subject": complete, cut after the email, and
\* with a "|" in the subject
InfoText(hash) ==
    hash \o <<"|", "A", "n", "|", "a", "@", "e", "|", "d", "t", "|", "m", "s", "g", "\n">>
ShortInfoText(hash) == hash \o <<"|", "A", "n", "|", "a", "@", "e", "\n">>
\* a subject that holds the delimiter: "a|b"
PipedInfoText(hash) ==
    hash \o <<"|", "A", "n", "|", "a", "@", "e", "|", "d", "t", "|", "a", "|", "b", "\n">>
InfoResponses(hash) ==
    { ProcError, Response(0, InfoText(hash)), Response(0, ShortInfoText(hash)),
      Response(0, PipedInfoText(hash)) }

\* name-status lines "<code>\tf<i>": n of them
StatusCodes == << <<"M">>, <<"A">>, <<"D">>, <<"X">> >>

NameStatusLine(i) ==
    StatusCodes[(i % Len(StatusCodes)) + 1] \o <<"\t", "f">> \o NumText(i) \o <<"\n">>

NameStatusOf(n) == Concat([i \in 1..n |-> NameStatusLine(i)])

\* more changes than the quick summary lists, the last line a repeat of the
\* first
ManyChanges == NameStatusOf(QuickLimit + 1) \o NameStatusLine(1)

ChangeResponses ==
    { ProcError,
      Response(0, <<>>),
      Response(0, <<"M", "\t", "f", "1", "\n", "X", "\t", "f", "2", "\n">>),
      Response(0, <<"M", "\t", "f", "1", "\n", "D", "\n">>),
      Response(0, ManyChanges) }

StatResponses == { ProcError, Response(0, <<>>), Response(0, <<" f1 | 2 +-", "\n">>) }

DiffText ==
    << "-", "-", "-", " ", "a", "\n", "+", "+", "+", " ", "b", "\n",
       "@", "@", "\n", "-", "x", "\n", "+", "y", "\n", " ", "z", "\n" >>
DiffResponses == { ProcError, Response(0, <<>>), Response(0, DiffText) }

Backends ==
    [ info1 : InfoResponses(HashA), info2 : InfoResponses(HashB),
      changes : ChangeResponses, stats : StatResponses, diff : DiffResponses ]


\* the log's answer: the backend returns at most count lines
LogLine(i) ==
    <<"c", Digit(i), "0", "0", "0", "0", "0", "0", "0", "0", "|", "m", Digit(i), "\n">>
LogText(n) == Concat([i \in 1..n |-> LogLine(i)])
LogResponses(count) ==
    { ProcError, Response(0, <<"c", "9", "\n">>) }
    \cup { Response(0, LogText(n)) : n \in 0..count }

NoResults == [info1 |-> <<>>, info2 |-> <<>>, changes |-> <<>>, stats |-> <<>>, full |-> <<>>]

NewEnv(entry, commit1, commit2) ==
    [ entry |-> entry, repo_path |-> <<>>, commit1 |-> commit1, commit2 |-> commit2,
      d |-> NoResults, s |-> NoResults, ret |-> <<>>, reparsed |-> <<>>,
      file0 |-> <<>> ]

OldReport == <<"old report\n">>

\* the program run as a script
InitMain ==
    /\ argv \in ArgvShapes
    /\ pc = "main"
    /\ file = <<>>
    /\ env = NewEnv("main", <<>>, <<>>)

\* GitDiffCLI().save_diff_report(commit1, commit2, output_file) called directly
InitSave ==
    /\ argv = <<>>
    /\ pc = "save_open"
    /\ file \in { <<>>, <<OldReport>> }
    /\ env = [NewEnv("save_diff_report", RefA, RefB) EXCEPT !.file0 = file]

Init ==
    /\ backend \in Backends
    /\ trace = <<>>
    /\ exit = -1
    /\ (InitMain \/ InitSave)

(***************************************************************************)
(* main: the dispatch on len(sys.argv), an if/elif chain.                  *)
(***************************************************************************)
IsInteractiveShape == Len(argv) = 1
IsQuickShape == Len(argv) = 3
IsRecentShape == Len(argv) = 4 /\ argv[2] = RepoFlag

\* an exception nothing catches: the traceback, exit status 1
Crash(tr, exc) ==
    /\ trace' = Append(tr, Out("Traceback", <<<<exc>>>>))
    /\ pc' = "crashed"
    /\ exit' = 1

\* main returns: exit status 0
Finish(tr) ==
    /\ trace' = tr
    /\ pc' = "done"
    /\ exit' = 0

\* len(sys.argv) == 1: GitDiffCLI() (whose GitDiffPython() prints a line when
\* GitPython or the repository is missing), then interactive_mode's banner
MainInteractive ==
    /\ pc = "main"
    /\ IsInteractiveShape
    /\ \E git_available \in BOOLEAN :
          trace' = trace
                   \o (IF git_available THEN <<>>
                       ELSE <<Out("GitPython unavailable", <<>>)>>)
                   \o << Out("Git Diff Tool - Interactive Mode", <<>>),
                         Out("======", <<>>) >>
    /\ pc' = "ask_repo"
    /\ UNCHANGED <<argv, backend, file, env, exit>>

\* len(sys.argv) == 3: compare_commits_quick(sys.argv[1], sys.argv[2])
MainQuick ==
    /\ pc = "main"
    /\ ~IsInteractiveShape /\ IsQuickShape
    /\ env' = [env EXCEPT !.commit1 = argv[2], !.commit2 = argv[3],
                          !.repo_path = <<".">>]
    /\ pc' = "quick_info"
    /\ UNCHANGED <<argv, backend, trace, file, exit>>

\* len(sys.argv) == 4 and sys.argv[1] == '--repo': get_recent_commits and
\* the numbered list
MainRecent ==
    /\ pc = "main"
    /\ ~IsInteractiveShape /\ ~IsQuickShape /\ IsRecentShape
    /\ \E resp \in LogResponses(RecentCount) :
          LET r == get_recent_commits(resp)
              commits == r.val
          IN  Finish(trace
                     \o <<Query("get_recent_commits", <<argv[3], NumText(RecentCount)>>)>>
                     \o Diag("recent commits", r)
                     \o <<Out("Recent commits in", <<argv[3]>>)>>
                     \o [i \in 1..Len(commits) |->
                            Out("commit", << NumText(i), Take(commits[i].hash, ShortLen),
                                            commits[i].message >>)])
    /\ UNCHANGED <<argv, backend, file, env>>

\* else: the usage text; main returns normally
MainUsage ==
    /\ pc = "main"
    /\ ~IsInteractiveShape /\ ~IsQuickShape /\ ~IsRecentShape
    /\ Finish(trace \o << Out("Git Diff Tool Usage:", <<>>),
                          Out("usage lines", <<>>),
                          Out("Examples:", <<>>) >>)
    /\ UNCHANGED <<argv, backend, file, env>>

(***************************************************************************)
(* compare_commits_quick.                                                  *)
(***************************************************************************)
\* the header, both get_commit_info calls, the From and To lines
QuickInfo ==
    /\ pc = "quick_info"
    /\ LET r1 == get_commit_info(backend.info1)
           r2 == get_commit_info(backend.info2)
           t1 == trace
                 \o << Out("Quick Comparison:", << Take(env.commit1, ShortLen),
                                                  Take(env.commit2, ShortLen) >>),
                       Out("======", <<>>),
                       Query("get_commit_info", <<env.commit1>>) >>
                 \o Diag("commit info", r1)
           t2 == t1 \o <<Query("get_commit_info", <<env.commit2>>)>>
                 \o Diag("commit info", r2)
           from == IF r1.val = <<>> THEN <<>>
                   ELSE <<Out("From:", <<r1.val[1].message, r1.val[1].author>>)>>
           to == IF r2.val = <<>> THEN <<>>
                 ELSE <<Out("To:", <<r2.val[1].message, r2.val[1].author>>)>>
       IN  IF r1.tag = "raise"
           THEN /\ Crash(t1, r1.exc)
                /\ env' = [env EXCEPT !.d.info1 = <<r1>>]
           ELSE IF r2.tag = "raise"
           THEN /\ Crash(t2, r2.exc)
                /\ env' = [env EXCEPT !.d.info1 = <<r1>>, !.d.info2 = <<r2>>]
           ELSE /\ trace' = t2 \o from \o to
                /\ pc' = "quick_changes"
                /\ env' = [env EXCEPT !.d.info1 = <<r1>>, !.d.info2 = <<r2>>]
                /\ UNCHANGED exit
    /\ UNCHANGED <<argv, backend, file>>

\* changes[:10], one line each
QuickList(changes) ==
    LET shown == Take(changes, QuickLimit)
    IN  [i \in 1..Len(shown) |->
           Out("quick change", <<LJust(shown[i].status, StatusWidth), shown[i].file>>)]

\* the line printed from the limit on, not past it
QuickMore_FromLimit(changes) ==
    IF Len(changes) >= QuickLimit
    THEN <<Out("... and more files", <<NumText(Len(changes) - QuickLimit)>>)>>
    ELSE <<>>

\* the "... and N more files" line
QuickMore(changes) ==
    IF Len(changes) > QuickLimit
    THEN <<Out("... and more files", <<NumText(Len(changes) - QuickLimit)>>)>>
    ELSE <<>>

\* the count printed after the list, as the last line
QuickChanges_CountLast ==
    /\ pc = "quick_changes"
    /\ LET r == get_diff_summary(backend.changes)
           t == Append(trace, Query("get_diff_summary", <<env.commit1, env.commit2>>))
                \o Diag("diff summary", r)
       IN  /\ env' = [env EXCEPT !.d.changes = <<r>>]
           /\ IF r.tag = "raise"
              THEN Crash(t, r.exc)
              ELSE Finish(t \o QuickList(r.val) \o QuickMore(r.val)
                            \o <<Out("Files changed:", <<NumText(Len(r.val))>>)>>)
    /\ UNCHANGED <<argv, backend, file>>

\* get_diff_summary, the count, the first changes and the "more" line
QuickChanges ==
    /\ pc = "quick_changes"
    /\ LET r == get_diff_summary(backend.changes)
           t == Append(trace, Query("get_diff_summary", <<env.commit1, env.commit2>>))
                \o Diag("diff summary", r)
       IN  /\ env' = [env EXCEPT !.d.changes = <<r>>]
           /\ IF r.tag = "raise"
              THEN Crash(t, r.exc)
              ELSE Finish(t \o <<Out("Files changed:", <<NumText(Len(r.val))>>)>>
                            \o QuickList(r.val) \o QuickMore(r.val))
    /\ UNCHANGED <<argv, backend, file>>

(***************************************************************************)
(* GitDiffCLI.interactive_mode.                                            *)
(***************************************************************************)
\* input(prompt).strip(): the prompt, the line read, the stripped text
Ask(prompt, line) == <<Prompt(prompt), Read(line)>>

AskRepoPath ==
    /\ pc = "ask_repo"
    /\ \E line \in RepoInputs :
          /\ trace' = trace \o Ask("Repository path", line)
          /\ env' = [env EXCEPT !.repo_path =
                        IF Strip(line) = <<>> THEN <<".">> ELSE Strip(line)]
    /\ pc' = "ask_ref1"
    /\ UNCHANGED <<argv, backend, file, exit>>

AskRef1 ==
    /\ pc = "ask_ref1"
    /\ \E line \in RefInputs1 :
          /\ trace' = trace \o Ask("first commit hash", line)
          /\ env' = [env EXCEPT !.commit1 = Strip(line)]
    /\ pc' = "ask_ref2"
    /\ UNCHANGED <<argv, backend, file, exit>>

\* only the second reference checked
RefsMissing_SecondOnly(commit1, commit2) == commit2 = <<>>

\* if not commit1 or not commit2
RefsMissing(commit1, commit2) == commit1 = <<>> \/ commit2 = <<>>

\* the second reference, then the check of both
AskRef2 ==
    /\ pc = "ask_ref2"
    /\ \E line \in RefInputs2 :
          LET commit2 == Strip(line)
              t == trace \o Ask("second commit hash", line)
          IN  /\ env' = [env EXCEPT !.commit2 = commit2]
              /\ IF RefsMissing(env.commit1, commit2)
                 THEN Finish(Append(t, Out("Both commit hashes are required!", <<>>)))
                 ELSE /\ trace' = Append(t, Out("Analyzing commits",
                                                << Take(env.commit1, ShortLen),
                                                   Take(commit2, ShortLen) >>))
                      /\ pc' = "show_from"
                      /\ UNCHANGED exit
    /\ UNCHANGED <<argv, backend, file>>

ShowFrom ==
    /\ pc = "show_from"
    /\ LET r == get_commit_info(backend.info1)
           t == trace \o << Out("======", <<>>), Out("FROM COMMIT:", <<>>),
                            Query("get_commit_info", <<env.commit1>>) >>
                \o Diag("commit info", r)
       IN  /\ env' = [env EXCEPT !.d.info1 = <<r>>]
           /\ IF r.tag = "raise" THEN Crash(t, r.exc)
              ELSE /\ trace' = t \o display_commit_info(r.val)
                   /\ pc' = "show_to"
                   /\ UNCHANGED exit
    /\ UNCHANGED <<argv, backend, file>>

ShowTo ==
    /\ pc = "show_to"
    /\ LET r == get_commit_info(backend.info2)
           t == trace \o << Out("TO COMMIT:", <<>>),
                            Query("get_commit_info", <<env.commit2>>) >>
                \o Diag("commit info", r)
       IN  /\ env' = [env EXCEPT !.d.info2 = <<r>>]
           /\ IF r.tag = "raise" THEN Crash(t, r.exc)
              ELSE /\ trace' = t \o display_commit_info(r.val)
                   /\ pc' = "show_summary"
                   /\ UNCHANGED exit
    /\ UNCHANGED <<argv, backend, file>>

ShowSummary ==
    /\ pc = "show_summary"
    /\ LET r == get_diff_summary(backend.changes)
           t == Append(trace, Query("get_diff_summary", <<env.commit1, env.commit2>>))
                \o Diag("diff summary", r)
       IN  /\ env' = [env EXCEPT !.d.changes = <<r>>]
           /\ IF r.tag = "raise" THEN Crash(t, r.exc)
              ELSE /\ trace' = t \o display_diff_summary(r.val)
                   /\ pc' = "show_stats"
                   /\ UNCHANGED exit
    /\ UNCHANGED <<argv, backend, file>>

\* the statistics block, printed when stats is a non-empty text
StatsBlock(stats) ==
    IF stats = <<>> \/ stats[1] = <<>> THEN <<>>
    ELSE << Out("Statistics:", <<>>), Out("======", <<>>), Out("stats", <<stats[1]>>) >>

ShowStats ==
    /\ pc = "show_stats"
    /\ LET r == get_diff_stats(backend.stats)
       IN  /\ env' = [env EXCEPT !.d.stats = <<r>>]
           /\ trace' = Append(trace, Query("get_diff_stats", <<env.commit1, env.commit2>>))
                       \o Diag("diff stats", r) \o StatsBlock(r.val)
    /\ pc' = "offer_full"
    /\ UNCHANGED <<argv, backend, file, exit>>

\* the answer "yes" accepted instead of "y"
Accepts_Yes(line) == Lower(Strip(line)) = <<"y", "e", "s">>

\* input(...).strip().lower() == 'y'
Accepts(line) == Lower(Strip(line)) = <<"y">>

OfferFullDiff ==
    /\ pc = "offer_full"
    /\ \E line \in OfferInputs :
          LET t == trace \o Ask("Show full diff?", line)
              r == get_full_diff(backend.diff)
          IN  IF Accepts(line)
              THEN /\ env' = [env EXCEPT !.d.full = <<r>>]
                   /\ trace' = Append(t, Query("get_full_diff", <<env.commit1, env.commit2>>))
                               \o Diag("full diff", r) \o display_full_diff(r.val)
              ELSE /\ trace' = t
                   /\ UNCHANGED env
    /\ pc' = "offer_save"
    /\ UNCHANGED <<argv, backend, file, exit>>

OfferSave ==
    /\ pc = "offer_save"
    /\ \E line \in OfferInputs :
          LET t == trace \o Ask("Save diff report to file?", line)
          IN  IF Accepts(line)
              THEN /\ trace' = t
                   /\ pc' = "save_open"
                   /\ UNCHANGED exit
              ELSE Finish(t)
    /\ UNCHANGED <<argv, backend, file, env>>

(***************************************************************************)
(* GitDiffCLI.save_diff_report.  The file is opened with mode 'w' (it is   *)
(* truncated at once) and written section by section between the queries;  *)
(* `except Exception` catches whatever is raised while it is open, prints  *)
(* the error and returns None.  file holds what has been handed to the     *)
(* file object so far, which is what the path holds once it is closed.     *)
(***************************************************************************)
AfterSave == IF env.entry = "main" THEN "done" ELSE "returned"

\* the except block: the error line, return None
SaveFailed(tr, e, f, exc) ==
    /\ trace' = Append(tr, Out("Error saving report:", <<<<exc>>>>))
    /\ env' = [e EXCEPT !.ret = <<"None">>]
    /\ file' = f
    /\ pc' = AfterSave
    /\ exit' = IF env.entry = "main" THEN 0 ELSE exit

SaveContinue(tr, e, f, next) ==
    /\ trace' = tr
    /\ env' = e
    /\ file' = f
    /\ pc' = next
    /\ UNCHANGED exit

\* open(output_file, 'w') and the three header writes
SaveOpen ==
    /\ pc = "save_open"
    /\ \/ SaveFailed(trace, env, file, "OSError: open")
       \/ SaveFailed(trace, env, << <<>> >>, "OSError: write")
       \/ SaveContinue(trace, env, <<ReportHeader(env.commit1, env.commit2)>>,
                       "save_info")
    /\ UNCHANGED <<argv, backend>>

\* both get_commit_info calls, then the From and To sections
SaveInfo ==
    /\ pc = "save_info"
    /\ LET r1 == get_commit_info(backend.info1)
           r2 == get_commit_info(backend.info2)
           t1 == Append(trace, Query("get_commit_info", <<env.commit1>>))
                 \o Diag("commit info", r1)
           t2 == Append(t1, Query("get_commit_info", <<env.commit2>>))
                 \o Diag("commit info", r2)
           e1 == [env EXCEPT !.s.info1 = <<r1>>]
           e2 == [e1 EXCEPT !.s.info2 = <<r2>>]
           sections == CommitSection("## From Commit\n", r1.val)
                       \o CommitSection("## To Commit\n", r2.val)
       IN  IF r1.tag = "raise" THEN SaveFailed(t1, e1, file, r1.exc)
           ELSE IF r2.tag = "raise" THEN SaveFailed(t2, e2, file, r2.exc)
           ELSE \/ SaveContinue(t2, e2, <<file[1] \o sections>>, "save_changes")
                \/ /\ sections # <<>>
                   /\ SaveFailed(t2, e2, file, "OSError: write")
    /\ UNCHANGED <<argv, backend>>

SaveChanges ==
    /\ pc = "save_changes"
    /\ LET r == get_diff_summary(backend.changes)
           t == Append(trace, Query("get_diff_summary", <<env.commit1, env.commit2>>))
                \o Diag("diff summary", r)
           e == [env EXCEPT !.s.changes = <<r>>]
           section == ChangesSection(r.val)
       IN  IF r.tag = "raise" THEN SaveFailed(t, e, file, r.exc)
           ELSE \/ SaveContinue(t, e, <<file[1] \o section>>, "save_stats")
                \/ /\ section # <<>>
                   /\ SaveFailed(t, e, file, "OSError: write")
    /\ UNCHANGED <<argv, backend>>

SaveStats ==
    /\ pc = "save_stats"
    /\ LET r == get_diff_stats(backend.stats)
           t == Append(trace, Query("get_diff_stats", <<env.commit1, env.commit2>>))
                \o Diag("diff stats", r)
           e == [env EXCEPT !.s.stats = <<r>>]
           section == StatsSection(r.val)
       IN  \/ SaveContinue(t, e, <<file[1] \o section>>, "save_full")
           \/ /\ section # <<>>
              /\ SaveFailed(t, e, file, "OSError: write")
    /\ UNCHANGED <<argv, backend>>

\* get_full_diff, the last section, the close, "Diff report saved to",
\* return output_file
SaveFullDiff ==
    /\ pc = "save_full"
    /\ LET r == get_full_diff(backend.diff)
           t == Append(trace, Query("get_full_diff", <<env.commit1, env.commit2>>))
                \o Diag("full diff", r)
           e == [env EXCEPT !.s.full = <<r>>]
           section == FullDiffSection(r.val)
       IN  \/ /\ trace' = Append(t, Out("Diff report saved to:", <<>>))
              /\ env' = [e EXCEPT !.ret = <<"output_file">>]
              /\ file' = <<file[1] \o section>>
              /\ pc' = AfterSave
              /\ exit' = IF env.entry = "main" THEN 0 ELSE exit
           \/ /\ section # <<>>
              /\ SaveFailed(t, e, file, "OSError: write")
    /\ UNCHANGED <<argv, backend>>

(***************************************************************************)
(* The program: run as a script, or save_diff_report called directly.      *)
(***************************************************************************)
Next ==
    \/ MainInteractive \/ MainQuick \/ MainRecent \/ MainUsage
    \/ QuickInfo \/ QuickChanges
    \/ AskRepoPath \/ AskRef1 \/ AskRef2
    \/ ShowFrom \/ ShowTo \/ ShowSummary \/ ShowStats
    \/ OfferFullDiff \/ OfferSave
    \/ SaveOpen \/ SaveInfo \/ SaveChanges \/ SaveStats \/ SaveFullDiff

Spec == Init /\ [][Next]_vars

(***************************************************************************)
(* The quick summary on its own: python git_diff.py <commit1> <commit2>    *)
(* against a repository with 0..MaxChanges changed files.                  *)
(***************************************************************************)
InitQuick ==
    /\ argv = <<Prog, RefA, RefB>>
    /\ pc = "main"
    /\ backend \in [ info1 : InfoResponses(HashA), info2 : InfoResponses(HashB),
                      changes : { ProcError }
                                \cup { Response(0, NameStatusOf(n)) : n \in 0..MaxChanges },
                      stats : { ProcError }, diff : { ProcError } ]
    /\ trace = <<>>
    /\ file = <<>>
    /\ env = NewEnv("main", <<>>, <<>>)
    /\ exit = -1

NextQuick == MainQuick \/ QuickInfo \/ QuickChanges

SpecQuick == InitQuick /\ [][NextQuick]_vars

(***************************************************************************)
(* The change list on its own: get_diff_summary on a name-status answer of *)
(* at most MaxLines lines, the document's change-list section made from    *)
(* it, and that section read back.                                         *)
(***************************************************************************)
LineShapes ==
    { <<"M", "\t", "f">>,
      <<"A", "\t", "g">>,
      <<"R", "1", "0", "0", "\t", "o", "\t", "n">>,
      <<"X", "\t", "a", ":", "*", "*", " ", "b">>,
      <<"X", ":", "*", "*", " ", "a", "\t", "b">>,
      <<"T", "\t">>,
      <<"D">>,
      <<>> }

LineSeqs(n) == UNION { [1..k -> LineShapes] : k \in 0..n }

NameStatusText(ls) == Concat([i \in 1..Len(ls) |-> Append(ls[i], "\n")])

NameStatusResponses ==
    { ProcError } \cup { Response(0, NameStatusText(ls)) : ls \in LineSeqs(MaxLines) }

ChangeDelim == <<":", "*", "*", " ">>
ChangeBullet == <<"-", " ", "*", "*">>

\* the reader of one "- **<status>:** <path>" line: the status ends at the
\* first ":** "
ReadChangeLine(line) ==
    LET body == SubSeq(line, Len(ChangeBullet) + 1, Len(line))
        at == { i \in 1..Len(body) - 3 : SubSeq(body, i, i + 3) = ChangeDelim }
    IN  IF at = {} THEN [status |-> <<>>, file |-> body]
        ELSE [status |-> SubSeq(body, 1, MinOf(at) - 1),
              file |-> SubSeq(body, MinOf(at) + 4, Len(body))]

\* the reader of the change-list section: the lines after the heading, up
\* to the blank line that ends the section
ReadChangesSection(section) ==
    IF section = <<>> THEN <<>>
    ELSE LET text == Tail(section)
             lines == Split(SubSeq(text, 1, Len(text) - 2), "\n")
         IN  [i \in 1..Len(lines) |-> ReadChangeLine(lines[i])]

InitParse ==
    /\ argv = <<>>
    /\ pc = "parse"
    /\ backend \in [ info1 : { ProcError }, info2 : { ProcError },
                      changes : NameStatusResponses,
                      stats : { ProcError }, diff : { ProcError } ]
    /\ trace = <<>>
    /\ file = <<>>
    /\ env = NewEnv("get_diff_summary", RefA, RefB)
    /\ exit = -1

\* changes = get_diff_summary(commit1, commit2)
ParseChanges ==
    /\ pc = "parse"
    /\ LET r == get_diff_summary(backend.changes)
       IN  /\ env' = [env EXCEPT !.d.changes = <<r>>]
           /\ trace' = Append(trace, Query("get_diff_summary", <<env.commit1, env.commit2>>))
                       \o Diag("diff summary", r)
           /\ pc' = IF r.tag = "raise" THEN "raised" ELSE "render"
    /\ UNCHANGED <<argv, backend, file, exit>>

\* the change-list section save_diff_report writes for these changes
RenderChanges ==
    /\ pc = "render"
    /\ file' = <<ChangesSection(env.d.changes[1].val)>>
    /\ pc' = "reread"
    /\ UNCHANGED <<argv, backend, trace, env, exit>>

RereadChanges ==
    /\ pc = "reread"
    /\ env' = [env EXCEPT !.reparsed = <<ReadChangesSection(file[1])>>]
    /\ pc' = "returned"
    /\ UNCHANGED <<argv, backend, trace, file, exit>>

NextParse == ParseChanges \/ RenderChanges \/ RereadChanges

SpecParse == InitParse /\ [][NextParse]_vars

(***************************************************************************)
(* The full diff on its own: get_full_diff on a diff of at most            *)
(* MaxDiffLines lines, then display_full_diff of what it returned.         *)
(***************************************************************************)
DiffLineShapes ==
    { <<"+", "+", "+", " ", "b">>,
      <<"-", "-", "-", " ", "a">>,
      <<"+", "y">>,
      <<"-", "x">>,
      <<"+">>,
      <<"-", "-">>,
      <<"@", "@", " ", "-", "1">>,
      <<"@">>,
      <<" ", "z">>,
      <<" ", "+", "q">>,
      <<"d", "-", "+">>,
      <<>> }

DiffLineSeqs(n) == UNION { [1..k -> DiffLineShapes] : k \in 0..n }

\* git ends every line of its output with a newline
DiffOf(ls) == Concat([i \in 1..Len(ls) |-> Append(ls[i], "\n")])

InitDiff ==
    /\ argv = <<>>
    /\ pc = "fetch_diff"
    /\ backend \in [ info1 : { ProcError }, info2 : { ProcError },
                      changes : { ProcError }, stats : { ProcError },
                      diff : { ProcError }
                             \cup { Response(0, DiffOf(ls)) : ls \in DiffLineSeqs(MaxDiffLines) } ]
    /\ trace = <<>>
    /\ file = <<>>
    /\ env = NewEnv("display_full_diff", RefA, RefB)
    /\ exit = -1

\* full_diff = self.subprocess_diff.get_full_diff(commit1, commit2)
FetchDiff ==
    /\ pc = "fetch_diff"
    /\ LET r == get_full_diff(backend.diff)
       IN  /\ env' = [env EXCEPT !.d.full = <<r>>]
           /\ trace' = Append(trace, Query("get_full_diff", <<env.commit1, env.commit2>>))
                       \o Diag("full diff", r)
    /\ pc' = "display_diff"
    /\ UNCHANGED <<argv, backend, file, exit>>

\* self.display_full_diff(full_diff)
DisplayDiff ==
    /\ pc = "display_diff"
    /\ trace' = trace \o display_full_diff(env.d.full[1].val)
    /\ pc' = "returned"
    /\ UNCHANGED <<argv, backend, file, env, exit>>

NextDiff == FetchDiff \/ DisplayDiff

SpecDiff == InitDiff /\ [][NextDiff]_vars

(***************************************************************************)
(* web_server.py: the todo services of create_flask_app and                *)
(* create_fastapi_app, each serving requests one at a time.  Here          *)
(*   pc   is the app that is serving ("flask" or "fastapi"),               *)
(*   env  holds the app's state and the last exchange:                     *)
(*          todos       the list the handlers close over (todos, todos_db) *)
(*          global_db   the module-level name todos_db: <<>> while it is   *)
(*                      unbound, <<list>> once it is bound                 *)
(*          last        the last request and its response                  *)
(*          prev        todos as it was when that request arrived          *)
(*   and argv, backend, trace, file and exit are not used.                 *)
(***************************************************************************)
Todo(id, task, completed) == [id |-> id, task |-> task, completed |-> completed]

FlaskTodos ==
    << Todo(1, "Learn Python", TRUE), Todo(2, "Build a web server", FALSE) >>
FastApiTodos ==
    << Todo(1, "Learn FastAPI", FALSE), Todo(2, "Build amazing APIs", FALSE) >>

\* the ids and the request bodies of the requests
TodoIds == 0..(MaxTodos + 1)
Bodies == { <<"new task">>, <<>> }

\* a request (op, the id in its path) and its response (status, body)
Exchange(op, id, status, body) == [op |-> op, id |-> id, status |-> status, body |-> body]
NoExchange == Exchange("none", 0, 0, <<>>)

Ids(todos) == { todos[i].id : i \in 1..Len(todos) }

\* max of the ids, without the + 1
NewId_NoIncrement(todos) == IF todos # <<>> THEN MaxOf(Ids(todos)) ELSE 1

\* max([t.id for t in todos]) + 1 if todos else 1
NewId(todos) == IF todos # <<>> THEN MaxOf(Ids(todos)) + 1 ELSE 1

\* next((t for t in todos if t.id == todo_id), None): the index, 0 for None
FindTodo(todos, todo_id) ==
    LET at == { i \in 1..Len(todos) : todos[i].id = todo_id }
    IN  IF at = {} THEN 0 ELSE MinOf(at)

\* [t for t in todos if t.id != todo_id]
WithoutId(todos, todo_id) == SelectSeq(todos, LAMBDA t : t.id # todo_id)

InitTodo ==
    /\ argv = <<>>
    /\ backend = <<>>
    /\ trace = <<>>
    /\ file = <<>>
    /\ exit = -1
    /\ \/ /\ pc = "flask"
          /\ env = [todos |-> FlaskTodos, global_db |-> <<>>,
                    last |-> NoExchange, prev |-> FlaskTodos]
       \/ /\ pc = "fastapi"
          /\ env = [todos |-> FastApiTodos, global_db |-> <<>>,
                    last |-> NoExchange, prev |-> FastApiTodos]

Respond(todos, global_db, exchange) ==
    /\ env' = [todos |-> todos, global_db |-> global_db,
               last |-> exchange, prev |-> env.todos]
    /\ UNCHANGED <<argv, pc, backend, trace, file, exit>>

\* Flask: GET /api/todos
flask_get_todos ==
    /\ pc = "flask"
    /\ Respond(env.todos, env.global_db, Exchange("list", 0, 200, env.todos))

\* Flask: POST /api/todos; data['task'] raises KeyError for a body without
\* a task, before anything is appended
add_todo ==
    /\ pc = "flask"
    /\ Len(env.todos) < MaxTodos
    /\ \E data \in Bodies :
          IF data = <<>>
          THEN Respond(env.todos, env.global_db, Exchange("create", 0, 500, <<>>))
          ELSE LET new_todo == Todo(NewId(env.todos), data[1], FALSE)
               IN  Respond(Append(env.todos, new_todo), env.global_db,
                           Exchange("create", new_todo.id, 200, <<new_todo>>))

\* Flask: POST /api/todos/<id>/toggle
toggle_todo ==
    /\ pc = "flask"
    /\ \E todo_id \in TodoIds :
          LET i == FindTodo(env.todos, todo_id)
              todos == [env.todos EXCEPT ![i].completed = ~env.todos[i].completed]
          IN  IF i # 0
              THEN Respond(todos, env.global_db,
                           Exchange("toggle", todo_id, 200, <<todos[i]>>))
              ELSE Respond(env.todos, env.global_db,
                           Exchange("toggle", todo_id, 404, <<>>))

\* FastAPI: GET /api/todos
fastapi_get_todos ==
    /\ pc = "fastapi"
    /\ Respond(env.todos, env.global_db, Exchange("list", 0, 200, env.todos))

\* FastAPI: POST /api/todos; a body that is no TodoCreate is refused (422)
\* before the handler runs
create_todo ==
    /\ pc = "fastapi"
    /\ Len(env.todos) < MaxTodos
    /\ \E body \in Bodies :
          IF body = <<>>
          THEN Respond(env.todos, env.global_db, Exchange("create", 0, 422, <<>>))
          ELSE LET new_todo == Todo(NewId(env.todos), body[1], FALSE)
               IN  Respond(Append(env.todos, new_todo), env.global_db,
                           Exchange("create", new_todo.id, 200, <<new_todo>>))

\* FastAPI: GET /api/todos/{todo_id}
get_todo ==
    /\ pc = "fastapi"
    /\ \E todo_id \in TodoIds :
          LET i == FindTodo(env.todos, todo_id)
          IN  IF i = 0
              THEN Respond(env.todos, env.global_db, Exchange("get", todo_id, 404, <<>>))
              ELSE Respond(env.todos, env.global_db,
                           Exchange("get", todo_id, 200, <<env.todos[i]>>))

\* FastAPI: DELETE /api/todos/{todo_id}.  `global todos_db` makes the name
\* the module's, not the list the other handlers close over: reading it
\* while it is unbound raises NameError (the response is 500), and the
\* assignment binds the module's name only.
delete_todo ==
    /\ pc = "fastapi"
    /\ \E todo_id \in TodoIds :
          IF env.global_db = <<>>
          THEN Respond(env.todos, env.global_db,
                       Exchange("delete", todo_id, 500, <<"Internal Server Error">>))
          ELSE Respond(env.todos, <<WithoutId(env.global_db[1], todo_id)>>,
                       Exchange("delete", todo_id, 200, <<"Todo deleted">>))

NextTodo ==
    \/ flask_get_todos \/ add_todo \/ toggle_todo
    \/ fastapi_get_todos \/ create_todo \/ get_todo \/ delete_todo

SpecTodo == InitTodo /\ [][NextTodo]_vars

(***************************************************************************)
(* Vocabulary of the properties.                                           *)
(***************************************************************************)
Events(k) == { i \in 1..Len(trace) : trace[i].k = k }
EventsOf(k) == SelectSeq(trace, LAMBDA e : e.k = k)
QueryEvents == { i \in 1..Len(trace) : trace[i].ev = "query" }
Count(k) == Cardinality(Events(k))

\* a response that exits zero with fewer than 5 pipe-delimited fields
FewFields(resp) ==
    resp.rc = 0
    /\ Cardinality({ i \in 1..Len(resp.stdout) : resp.stdout[i] = "|" }) + 1 < 5

\* a query outcome: made and None (or the empty list); made and a value
Absent(o) == o # <<>> /\ o[1].val = <<>>
Present(o) == o # <<>> /\ o[1].val # <<>>
\* for a text: made, and None or the empty text
NoText(o) == o # <<>> /\ (o[1].val = <<>> \/ o[1].val[1] = <<>>)
HasText(o) == o # <<>> /\ o[1].val # <<>> /\ o[1].val[1] # <<>>

\* the document holds this piece of the template
HasPiece(x) == file # <<>> /\ \E i \in 1..Len(file[1]) : file[1][i] = x

FromHeading == "## From Commit\n"
ToHeading == "## To Commit\n"
ChangesHeading == "## Changes Summary\n\n"
StatsHeading == "## Statistics\n\n"
FullDiffHeading == "## Full Diff\n\n"

(***************************************************************************)
(* C1.                                                                     *)
(***************************************************************************)
\* C1: invoked as `--repo <path>` (the flag and one path), the program runs
\* the recent-log query against <path> with bound 5, prints at most 5
\* commits, and runs no quick comparison of `--repo` and the path.
C1_RepoFlagShowsRecentCommits ==
    (Len(argv) = 3 /\ argv[2] = RepoFlag /\ pc # "main") =>
        /\ \E i \in 1..Len(trace) :
              trace[i] = Query("get_recent_commits", <<argv[3], <<"5">>>>)
        /\ \A i \in QueryEvents : trace[i].k = "get_recent_commits"
        /\ Count("commit") <= 5
        /\ Count("Quick Comparison:") = 0

(***************************************************************************)
(* C2.                                                                     *)
(***************************************************************************)
\* C2: every get_commit_info call whose backend response exits zero with
\* fewer than 5 fields returns the absent marker (None): it returns no
\* partly filled CommitInfo and no error escapes to the caller.
C2_MalformedInfoIsQueryFailed ==
    \A ph \in {"d", "s"} : \A w \in {"info1", "info2"} :
        (env[ph][w] # <<>> /\ FewFields(backend[w])) =>
            (env[ph][w][1].tag = "ok" /\ env[ph][w][1].val = <<>>)

(***************************************************************************)
(* C3.                                                                     *)
(***************************************************************************)
RawLines(text) == SelectSeq(Split(text, "\n"), LAMBDA l : l # <<>>)
RawCode(line) == Split(line, "\t")[1]
RecognizedKinds == { Added, Modified, Deleted, Renamed, Copied }

\* C3: for every successful name-status response, get_diff_summary returns
\* one entry per non-empty output line, in order, each with a recognized
\* status or the line's raw code, whatever the shape of the line (rename
\* codes with a score, lines without a tab).
C3_OneEntryPerLine ==
    (env.d.changes # <<>> /\ backend.changes.rc = 0) =>
        LET r == env.d.changes[1]
            lines == RawLines(backend.changes.stdout)
        IN  /\ r.tag = "ok"
            /\ Len(r.val) = Len(lines)
            /\ \A i \in 1..Len(lines) :
                  r.val[i].status \in RecognizedKinds \cup { RawCode(lines[i]) }

(***************************************************************************)
(* C4.                                                                     *)
(***************************************************************************)
InfoFails(resp) == resp.rc # 0 \/ FewFields(resp)
Populated(resp) == resp.rc = 0 /\ resp.stdout # <<>>
ChangesPopulated(resp) ==
    /\ Populated(resp)
    /\ \A i \in 1..Len(RawLines(resp.stdout)) :
          Len(Split(RawLines(resp.stdout)[i], "\t")) >= 2
NoIOError ==
    \A i \in Events("Error saving report:") :
        trace[i].a[1][1] \notin { "OSError: open", "OSError: write" }

\* C4: when the commit-info query for ref1 fails and the other four queries
\* succeed, the saved result has `from` absent and every other field
\* populated, and the document holds the To, change-list, statistics and
\* full-diff sections and no From section.
C4_PartialFailureOmitsOnlyFrom ==
    ( /\ env.ret # <<>>
      /\ NoIOError
      /\ InfoFails(backend.info1)
      /\ ~InfoFails(backend.info2)
      /\ ChangesPopulated(backend.changes)
      /\ Populated(backend.stats)
      /\ Populated(backend.diff) ) =>
        /\ Absent(env.s.info1)
        /\ Present(env.s.info2)
        /\ Present(env.s.changes)
        /\ HasText(env.s.stats)
        /\ HasText(env.s.full)
        /\ ~HasPiece(FromHeading)
        /\ HasPiece(ToHeading)
        /\ HasPiece(ChangesHeading)
        /\ HasPiece(StatsHeading)
        /\ HasPiece(FullDiffHeading)

(***************************************************************************)
(* C5.                                                                     *)
(***************************************************************************)
\* the document holds no section for a field that is absent or empty
DocumentOmitsAbsent ==
    /\ Absent(env.s.info1) => ~HasPiece(FromHeading)
    /\ Absent(env.s.info2) => ~HasPiece(ToHeading)
    /\ Absent(env.s.changes) => ~HasPiece(ChangesHeading)
    /\ NoText(env.s.stats) => ~HasPiece(StatsHeading)
    /\ NoText(env.s.full) => ~HasPiece(FullDiffHeading)
    /\ (Absent(env.s.info1) /\ Absent(env.s.info2)) => ~HasPiece("- **Hash:** ")

\* the terminal shows no header, label or placeholder for such a field
TerminalOmitsAbsent ==
    /\ Absent(env.d.info1) => Count("FROM COMMIT:") = 0
    /\ Absent(env.d.info2) => Count("TO COMMIT:") = 0
    /\ (Absent(env.d.info1) /\ Absent(env.d.info2)) => Count("Commit:") = 0
    /\ Absent(env.d.changes) =>
          Count("No changes found.") = 0 /\ Count("Summary:") = 0
    /\ NoText(env.d.stats) => Count("Statistics:") = 0 /\ Count("stats") = 0
    /\ NoText(env.d.full) =>
          Count("No diff content available.") = 0 /\ Count("Full Diff:") = 0

\* C5 as claimed: for every subset of absent fields, the terminal view and
\* the document both omit the field's section: no header, label or
\* placeholder is emitted for it.
C5_BothSinksOmitAbsent ==
    DocumentOmitsAbsent /\ (Len(argv) = 1 => TerminalOmitsAbsent)

Bit(b) == IF b THEN 1 ELSE 0

\* what the terminal view does for such a field: the detail and statistics
\* blocks are left out, the two labels are printed whatever the outcome, and
\* an empty change list and an absent or empty diff get their placeholder
TerminalOmitsBlocks ==
    /\ \A k \in {"Commit:", "Author:", "Date:", "Message:", "------"} :
          Count(k) = Bit(Present(env.d.info1)) + Bit(Present(env.d.info2))
    /\ env.d.info1 # <<>> => Count("FROM COMMIT:") = 1
    /\ env.d.info2 # <<>> => Count("TO COMMIT:") = 1
    /\ (Absent(env.d.changes) /\ env.d.changes[1].tag = "ok") =>
          /\ Count("No changes found.") = 1
          /\ Count("Summary:") = 0 /\ Count("change") = 0
    /\ NoText(env.d.stats) => Count("Statistics:") = 0 /\ Count("stats") = 0
    /\ NoText(env.d.full) =>
          /\ Count("No diff content available.") = 1
          /\ Count("Full Diff:") = 0 /\ Count("diff") = 0

\* C5 (amended): for every subset of absent fields the document omits the
\* field's section entirely; the terminal view omits the commit detail block
\* and the statistics block, but prints the FROM COMMIT: and TO COMMIT:
\* labels always, "No changes found." for an empty change list and "No diff
\* content available." for an absent or empty diff.
C5_DocumentOmitsTerminalPlaceholders ==
    DocumentOmitsAbsent /\ (Len(argv) = 1 => TerminalOmitsBlocks)

\* an interactive run, report saved, with from, changes, statistics and the
\* requested diff all absent or empty and to present
C5_Witness ==
    /\ Len(argv) = 1 /\ pc = "done" /\ env.ret = <<"output_file">>
    /\ Absent(env.d.info1) /\ Present(env.d.info2) /\ Absent(env.d.changes)
    /\ NoText(env.d.stats) /\ NoText(env.d.full)
    /\ Absent(env.s.info1) /\ Present(env.s.info2) /\ Absent(env.s.changes)
    /\ NoText(env.s.stats) /\ NoText(env.s.full)
    /\ HasPiece(ToHeading)

(***************************************************************************)
(* C6.                                                                     *)
(***************************************************************************)
FirstRefPrompt == Prompt("first commit hash")
SecondRefPrompt == Prompt("second commit hash")
\* the reads of a reference input, and those of the second one
RefReads ==
    { i \in 2..Len(trace) :
        trace[i].ev = "read" /\ trace[i - 1] \in {FirstRefPrompt, SecondRefPrompt} }
SecondRefReads == { i \in RefReads : trace[i - 1] = SecondRefPrompt }
EmptyRead(i) == Strip(trace[i].a[1]) = <<>>

\* C6 as claimed: after a reference input that is empty (after trimming) is
\* read, no further prompt is issued, no line is read and no backend query
\* is made.
C6_NothingAfterEmptyRef ==
    \A i \in RefReads : EmptyRead(i) =>
        \A j \in (i + 1)..Len(trace) : trace[j].ev \notin {"prompt", "read", "query"}

\* C6 (amended): both reference inputs are read before they are checked; if
\* either is empty (after trimming), then once the second one is read the
\* session reports the validation failure and ends: the message is the last
\* thing it does (no further prompt, read or backend query).
C6_EndsAfterSecondRef ==
    \A j \in SecondRefReads :
        (\E i \in RefReads : i <= j /\ EmptyRead(i)) =>
            /\ pc = "done" /\ exit = 0
            /\ Len(trace) = j + 1
            /\ trace[j + 1] = Out("Both commit hashes are required!", <<>>)

\* the first reference empty, the second given: the session has ended
C6_Witness ==
    /\ pc = "done"
    /\ \E i \in RefReads : \E j \in SecondRefReads :
          i < j /\ EmptyRead(i) /\ ~EmptyRead(j)

(***************************************************************************)
(* C7.                                                                     *)
(***************************************************************************)
\* C7: at every point during and after save_diff_report the path holds
\* either what it held before (no new report) or the one complete report;
\* a save that fails part-way leaves no partly written report.
C7_ReportWrittenAtomically ==
    file = env.file0 \/ env.ret = <<"output_file">>

(***************************************************************************)
(* C8.                                                                     *)
(***************************************************************************)
\* C8: for a change list of length n the quick summary reports the count n,
\* lists the first min(n, 10) changes in input order, and has the line
\* "... and (n-10) more files" exactly when n > 10.
C8_QuickSummaryTruncation ==
    (pc = "done" /\ env.d.changes # <<>>) =>
        LET changes == env.d.changes[1].val
            n == Len(changes)
            shown == EventsOf("quick change")
        IN  /\ EventsOf("Files changed:") = <<Out("Files changed:", <<NumText(n)>>)>>
            /\ Len(shown) = IF n < 10 THEN n ELSE 10
            /\ \A i \in 1..Len(shown) :
                  /\ shown[i].a[2] = changes[i].file
                  /\ Strip(shown[i].a[1]) = changes[i].status
            /\ EventsOf("... and more files")
                  = IF n > 10 THEN <<Out("... and more files", <<NumText(n - 10)>>)>>
                    ELSE <<>>

\* 15 changes: the first 10 and "... and 5 more files"
C8_Witness ==
    /\ pc = "done" /\ env.d.changes # <<>>
    /\ Len(env.d.changes[1].val) = 15
    /\ Count("quick change") = 10
    /\ EventsOf("... and more files") = <<Out("... and more files", << <<"5">> >>)>>
    /\ EventsOf("quick change")[10].a[2] = <<"f", "1", "0">>

(***************************************************************************)
(* C9.                                                                     *)
(***************************************************************************)
HasDelim(text) ==
    \E i \in 1..Len(text) - 3 : SubSeq(text, i, i + 3) = ChangeDelim

\* C9 as claimed: the change-list section written for any change list the
\* adapter produces reads back as the same (status, path) pairs in order.
C9_RoundTrip ==
    env.reparsed # <<>> => env.reparsed[1] = env.d.changes[1].val

\* C9 (amended): the round trip holds for every change list none of whose
\* status codes contains the text ":** " (every recognized status and every
\* alphanumeric backend code), whatever the paths.
C9_RoundTripPlainCodes ==
    ( /\ env.reparsed # <<>>
      /\ \A i \in 1..Len(env.d.changes[1].val) :
            ~HasDelim(env.d.changes[1].val[i].status) ) =>
        env.reparsed[1] = env.d.changes[1].val

\* read back: a recognized status, a passed-through rename code and a path
\* that holds ":** "
C9_Witness ==
    /\ pc = "returned" /\ env.reparsed # <<>>
    /\ LET cs == env.reparsed[1]
       IN  /\ Len(cs) = 3
           /\ \A i \in 1..3 : ~HasDelim(cs[i].status)
           /\ \E i \in 1..3 : cs[i].status = Modified
           /\ \E i \in 1..3 : cs[i].status = <<"R", "1", "0", "0">>
           /\ \E i \in 1..3 : HasDelim(cs[i].file)

(***************************************************************************)
(* C10.                                                                    *)
(***************************************************************************)
\* C10: for every argument shape other than no arguments, two references
\* and `--repo <path>`, the program prints the usage text and exits with a
\* non-zero status, without a backend query.
C10_OtherShapesPrintUsage ==
    (argv # <<>> /\ Len(argv) \notin {1, 3} /\ pc # "main") =>
        /\ Count("Git Diff Tool Usage:") = 1
        /\ exit \notin {-1, 0}
        /\ QueryEvents = {}

(***************************************************************************)
(* C11.                                                                    *)
(***************************************************************************)
ChangeQueries == { i \in QueryEvents : trace[i].k = "get_diff_summary" }
ChangeDiag == Out("Error getting", << <<"diff summary">> >>)

\* C11: when the backend process exits with an error, get_diff_summary
\* returns the empty sequence (no failure value, nothing raised), the same
\* value as for a successful answer with no changes, and prints its
\* diagnostic line right after the query, once per failed query.
C11_ProcessErrorIsEmptyList ==
    backend.changes.rc # 0 =>
        /\ \A ph \in {"d", "s"} :
              env[ph].changes # <<>> =>
                  /\ env[ph].changes[1].tag = "ok"
                  /\ env[ph].changes[1].val = <<>>
                  /\ env[ph].changes[1].val
                        = get_diff_summary(Response(0, <<>>)).val
        /\ \A i \in ChangeQueries : i < Len(trace) /\ trace[i + 1] = ChangeDiag
        /\ Cardinality({ i \in 1..Len(trace) : trace[i] = ChangeDiag })
              = Cardinality(ChangeQueries)

\* an interactive run whose change-list query failed, on the terminal and
\* again for the saved report
C11_Witness ==
    /\ Len(argv) = 1 /\ pc = "done" /\ backend.changes.rc # 0
    /\ env.d.changes # <<>> /\ env.s.changes # <<>>
    /\ Cardinality(ChangeQueries) = 2
    /\ Count("No changes found.") = 1

(***************************************************************************)
(* C12.                                                                    *)
(***************************************************************************)
Printed == SelectSeq(trace, LAMBDA e : e.ev = "print")
QuickHeader ==
    Out("Quick Comparison:", <<Take(argv[2], ShortLen), Take(argv[3], ShortLen)>>)
CountLines == Events("Files changed:")

\* the first line printed names both identifiers, each cut to 8 characters
BeginsWithHeader ==
    /\ Printed # <<>>
    /\ Printed[1] = QuickHeader
    /\ \A i \in 1..2 : Len(Printed[1].a[i]) <= 8

\* C12 as claimed: invoked with two references, for every outcome of the
\* backend queries the terminal output begins with the line that names both
\* shortened identifiers and ends with the file-count line: no line is
\* printed after it.
C12_EndsWithFileCount ==
    (Len(argv) = 3 /\ pc \in {"done", "crashed"}) =>
        /\ BeginsWithHeader
        /\ Printed[Len(Printed)].k = "Files changed:"

\* C12 (amended): the output begins with the line that names both shortened
\* identifiers.  A run in which every query returns prints the file-count
\* line once, and after it only the lines of the first 10 changes and, past
\* 10 changes, the "... and N more files" line, which is then the last
\* line.  A run ended by the IndexError of a malformed answer prints no
\* file-count line: its last line is the traceback.
C12_HeaderThenCountThenList ==
    (Len(argv) = 3 /\ pc \notin {"main", "quick_info"}) =>
        /\ BeginsWithHeader
        /\ Cardinality(CountLines) <= 1
        /\ \A i \in CountLines :
              /\ \A j \in (i + 1)..Len(trace) :
                    trace[j].k \in {"quick change", "... and more files"}
              /\ LET n == Len(env.d.changes[1].val)
                 IN  Len(trace) - i
                        = (IF n < QuickLimit THEN n ELSE QuickLimit)
                          + (IF n > QuickLimit THEN 1 ELSE 0)
        /\ pc = "done" => Cardinality(CountLines) = 1
        /\ pc = "crashed" =>
              /\ CountLines = {}
              /\ Printed[Len(Printed)].k = "Traceback"

\* 15 changes: header first, the count, 10 changes, the "more" line last
C12_Witness ==
    /\ Len(argv) = 3 /\ pc = "done" /\ BeginsWithHeader
    /\ Printed[1].a = <<RefA, Take(RefB, 8)>>
    /\ Len(env.d.changes[1].val) = 15
    /\ \E i \in CountLines : Len(trace) = i + 11
    /\ trace[Len(trace)].k = "... and more files"

(***************************************************************************)
(* C13.                                                                    *)
(***************************************************************************)
\* the (status, path) pairs a rendering shows, in the order it shows them
TableShown ==
    [i \in 1..Count("change") |->
        [status |-> Strip(EventsOf("change")[i].a[2]), file |-> EventsOf("change")[i].a[3]]]
QuickShown ==
    [i \in 1..Count("quick change") |->
        [status |-> Strip(EventsOf("quick change")[i].a[1]),
         file |-> EventsOf("quick change")[i].a[2]]]

\* the lines of the document's change list: from the heading to the blank
\* line that ends the section
DocChangeLines ==
    LET doc == file[1]
        h == CHOOSE i \in 1..Len(doc) : doc[i] = ChangesHeading
        ends == { i \in (h + 2)..Len(doc) : doc[i] = "\n" /\ doc[i - 1] = "\n" }
    IN  Split(SubSeq(doc, h + 1, MinOf(ends) - 2), "\n")
ChangeLineText(c) == ChangeBullet \o c.status \o ChangeDelim \o c.file

\* what the adapter returned to this rendering, and the backend's lines
Given(ph) == env[ph].changes[1].val
GivenTo(ph) == env[ph].changes # <<>> /\ env[ph].changes[1].tag = "ok"

\* the adapter's entries are the backend's non-empty lines, in order
BackendOrder(ph) ==
    LET lines == RawLines(backend.changes.stdout)
    IN  /\ Len(Given(ph)) = Len(lines)
        /\ \A i \in 1..Len(lines) :
              /\ Given(ph)[i].file = Split(lines[i], "\t")[2]
              /\ Given(ph)[i].status = status_map(Split(lines[i], "\t")[1])

TableKeepsOrder ==
    (Len(argv) = 1 /\ GivenTo("d")) => (BackendOrder("d") /\ TableShown = Given("d"))

DocumentKeepsOrder ==
    /\ (GivenTo("s") /\ Given("s") # <<>> /\ pc \in {"save_stats", "save_full"})
          => HasPiece(ChangesHeading)
    /\ HasPiece(ChangesHeading) =>
          /\ BackendOrder("s")
          /\ DocChangeLines = [i \in 1..Len(Given("s")) |-> ChangeLineText(Given("s")[i])]

\* C13 as claimed: the terminal table, the quick summary and the document's
\* change list each show every entry of the sequence they are given, in the
\* order of the backend's lines: nothing is reordered, de-duplicated or
\* dropped.
C13_NoRenderingDropsEntries ==
    /\ TableKeepsOrder
    /\ DocumentKeepsOrder
    /\ (Len(argv) = 3 /\ GivenTo("d")) => (BackendOrder("d") /\ QuickShown = Given("d"))

\* C13 (amended): the terminal table and the document's change list show
\* every entry they are given, in backend order, repeats included; the quick
\* summary shows the first 10 entries in that order and drops the rest.
C13_OrderKeptQuickTruncates ==
    /\ TableKeepsOrder
    /\ DocumentKeepsOrder
    /\ (Len(argv) = 3 /\ GivenTo("d")) =>
          (BackendOrder("d") /\ QuickShown = Take(Given("d"), QuickLimit))

\* an interactive run with the report saved: 12 changes, the last a repeat
\* of the first, f10 and f11 after f9, in the table and in the document
C13_Witness ==
    /\ Len(argv) = 1 /\ pc = "done" /\ env.ret = <<"output_file">>
    /\ GivenTo("d") /\ GivenTo("s")
    /\ Len(TableShown) = 12 /\ TableShown[12] = TableShown[1]
    /\ TableShown[10].file = <<"f", "1", "0">>
    /\ Len(DocChangeLines) = 12 /\ DocChangeLines[12] = DocChangeLines[1]

(***************************************************************************)
(* C14.                                                                    *)
(***************************************************************************)
FullDiffPrompt == Prompt("Show full diff?")
SavePrompt == Prompt("Save diff report to file?")
\* the answers read at a prompt (the read follows its prompt)
Answers(p) == { i \in 2..Len(trace) : trace[i].ev = "read" /\ trace[i - 1] = p }
Trimmed(i) == Lower(Strip(trace[i].a[1]))

\* the true branch of the first prompt: the full diff fetched and displayed
FullDiffShownAfter(i) ==
    /\ Len(trace) > i + 1
    /\ trace[i + 1] = Query("get_full_diff", <<env.commit1, env.commit2>>)
    /\ Count("Full Diff:") + Count("No diff content available.") = 1
\* its false branch: no fetch, nothing displayed, the next prompt follows
FullDiffSkippedAfter(i) ==
    /\ env.d.full = <<>>
    /\ Count("Full Diff:") + Count("No diff content available.") = 0
    /\ Len(trace) > i => trace[i + 1] = SavePrompt

\* the true branch of the second prompt: save_diff_report entered
SaveEnteredAfter(i) ==
    pc = "save_open" \/ env.ret # <<>> \/ pc \in {"save_info", "save_changes", "save_stats", "save_full"}
\* its false branch: the session over, nothing saved, nothing done since
SaveSkippedAfter(i) ==
    pc = "done" /\ exit = 0 /\ env.ret = <<>> /\ file = <<>> /\ Len(trace) = i

\* each prompt issued at most once, the second one right after the first
\* one's branch
NoPromptRepeated ==
    /\ Cardinality({ i \in 1..Len(trace) : trace[i] = FullDiffPrompt }) <= 1
    /\ Cardinality({ i \in 1..Len(trace) : trace[i] = SavePrompt }) <= 1
    /\ \A i \in Answers(FullDiffPrompt) : pc # "offer_full"
    /\ \A i \in Answers(SavePrompt) : pc # "offer_save"
    /\ \A i \in 1..Len(trace) : \A j \in 1..Len(trace) :
          (trace[i] = SavePrompt /\ trace[j] = FullDiffPrompt) => j < i

Branches(yes(_)) ==
    /\ \A i \in Answers(FullDiffPrompt) :
          IF yes(Trimmed(i)) THEN FullDiffShownAfter(i) ELSE FullDiffSkippedAfter(i)
    /\ \A i \in Answers(SavePrompt) :
          IF yes(Trimmed(i)) THEN SaveEnteredAfter(i) ELSE SaveSkippedAfter(i)

IsYes(a) == a = <<"y", "e", "s">>
IsY(a) == a = <<"y">>

\* C14 as claimed: at each of the two prompts the answer "yes" takes the
\* true branch (the full diff fetched and displayed, the report saved) and
\* every other answer, the empty one included, takes the false branch; the
\* session goes on either way and no prompt is repeated.
C14_YesTakesTrueBranch == Branches(IsYes) /\ NoPromptRepeated

\* C14 (amended): the answer that takes the true branch is "y" (trimmed, in
\* either case); every other answer, "yes" and the empty one included, takes
\* the false branch; the session goes on either way and no prompt is
\* repeated.
C14_OnlyYTakesTrueBranch == Branches(IsY) /\ NoPromptRepeated

\* "Y" at the first prompt (the diff shown), "yes" at the second (nothing
\* saved)
C14_Witness ==
    /\ pc = "done" /\ env.ret = <<>>
    /\ \E i \in Answers(FullDiffPrompt) :
          trace[i].a[1] = <<"Y">> /\ FullDiffShownAfter(i) /\ Count("Full Diff:") = 1
    /\ \E i \in Answers(SavePrompt) : trace[i].a[1] = <<"y", "e", "s">>

(***************************************************************************)
(* C15.                                                                    *)
(***************************************************************************)
Pipes(text) == { i \in 1..Len(text) : text[i] = "|" }
\* the subject field of "hash|author|email|date|subject": everything after
\* the fourth "|"
SubjectOf(text) ==
    LET fourth == CHOOSE i \in Pipes(text) :
                      Cardinality({ j \in Pipes(text) : j <= i }) = 4
    IN  SubSeq(text, fourth + 1, Len(text))

\* C15: for every response of at least 5 fields, get_commit_info returns as
\* the message the entire subject (everything after the fourth "|"), also
\* when the subject itself holds "|".
C15_MessageIsWholeSubject ==
    \A ph \in {"d", "s"} : \A w \in {"info1", "info2"} :
        ( /\ env[ph][w] # <<>>
          /\ backend[w].rc = 0
          /\ Cardinality(Pipes(backend[w].stdout)) >= 4 ) =>
            /\ env[ph][w][1].tag = "ok"
            /\ env[ph][w][1].val # <<>>
            /\ env[ph][w][1].val[1].message = SubjectOf(Strip(backend[w].stdout))

(***************************************************************************)
(* C16.                                                                    *)
(***************************************************************************)
\* the session's prompts, in the order of its states
SessionPrompts ==
    << Prompt("Repository path"), FirstRefPrompt, SecondRefPrompt,
       FullDiffPrompt, SavePrompt >>
PromptsIssued == SelectSeq(trace, LAMBDA e : e.ev = "prompt")

\* where the session is, as a position in AskRepoPath, AskRefs, ShowInfo,
\* ShowSummary, ShowStats, OfferFullDiff, OfferSave, Done
SessionRank ==
    CASE pc \in {"main", "ask_repo"} -> 1
      [] pc \in {"ask_ref1", "ask_ref2"} -> 2
      [] pc \in {"show_from", "show_to"} -> 3
      [] pc = "show_summary" -> 4
      [] pc = "show_stats" -> 5
      [] pc = "offer_full" -> 6
      [] pc = "offer_save" -> 7
      [] OTHER -> 8

\* the prompts issued so far are the first prompts of the session, each
\* once and in order, and each display state has acted at most once
LinearSoFar ==
    /\ Len(PromptsIssued) <= Len(SessionPrompts)
    /\ PromptsIssued = SubSeq(SessionPrompts, 1, Len(PromptsIssued))
    /\ SessionRank >= 3 => Len(PromptsIssued) >= 3
    /\ SessionRank <= 6 => Len(PromptsIssued) <= 3
    /\ Count("FROM COMMIT:") <= 1 /\ Count("TO COMMIT:") <= 1
    /\ Count("Summary:") + Count("No changes found.") <= 1
    /\ Count("Statistics:") <= 1

\* C16: the interactive session visits its states only in the order
\* AskRepoPath, AskRefs, ShowInfo, ShowSummary, ShowStats, OfferFullDiff,
\* OfferSave, Done, none twice, and for every input and every outcome of the
\* backend queries it ends at Done (or at the validation-failure end) after
\* at most five prompts: it never ends anywhere else.
C16_LinearSessionReachesDone ==
    Len(argv) = 1 =>
        /\ LinearSoFar
        /\ pc # "crashed"
        /\ pc = "done" => exit = 0

(***************************************************************************)
(* C17.                                                                    *)
(***************************************************************************)
\* a sub-query was issued and returned to its caller
Answered(o) == o # <<>> /\ o[1].tag = "ok"
\* the answer of a failed sub-query: the absent marker
FailedIsAbsent(o, resp) == (o # <<>> /\ resp.rc # 0) => Absent(o)

\* the interactive display, over: four sub-queries issued, each rendered
DisplayComplete ==
    /\ pc # "crashed"
    /\ Answered(env.d.info1) /\ Answered(env.d.info2)
    /\ Answered(env.d.changes) /\ Answered(env.d.stats)
    /\ Count("FROM COMMIT:") = 1 /\ Count("TO COMMIT:") = 1
    /\ Count("Commit:") = Bit(Present(env.d.info1)) + Bit(Present(env.d.info2))
    /\ Count("Summary:") + Count("No changes found.") = 1
    /\ Count("Statistics:") = Bit(HasText(env.d.stats))

\* the quick summary, over: three sub-queries issued, each rendered
QuickComplete ==
    /\ pc # "crashed"
    /\ Answered(env.d.info1) /\ Answered(env.d.info2) /\ Answered(env.d.changes)
    /\ Count("From:") = Bit(Present(env.d.info1))
    /\ Count("To:") = Bit(Present(env.d.info2))
    /\ Count("Files changed:") = 1

\* the report save, over without an I/O error: five sub-queries issued, the
\* report written with a section for each field that is present
SaveComplete ==
    /\ env.ret = <<"output_file">>
    /\ Answered(env.s.info1) /\ Answered(env.s.info2) /\ Answered(env.s.changes)
    /\ Answered(env.s.stats) /\ Answered(env.s.full)
    /\ HasPiece(FromHeading) <=> Present(env.s.info1)
    /\ HasPiece(ToHeading) <=> Present(env.s.info2)
    /\ HasPiece(ChangesHeading) <=> Present(env.s.changes)
    /\ HasPiece(StatsHeading) <=> HasText(env.s.stats)
    /\ HasPiece(FullDiffHeading) <=> HasText(env.s.full)

\* C17: during a comparison (interactive display, quick summary, report
\* save) a failed sub-query leaves its field absent and never aborts the
\* operation: every remaining sub-query is still issued and its result
\* rendered.
C17_NoShortCircuit ==
    /\ \A ph \in {"d", "s"} : \A w \in {"info1", "info2", "changes"} :
          FailedIsAbsent(env[ph][w], backend[w])
    /\ (Len(argv) = 1 /\ Count("Analyzing commits") = 1
           /\ pc \notin {"show_from", "show_to", "show_summary", "show_stats"})
          => DisplayComplete
    /\ (Len(argv) = 3 /\ pc \notin {"main", "quick_info", "quick_changes"})
          => QuickComplete
    /\ (env.ret # <<>> /\ NoIOError) => SaveComplete

(***************************************************************************)
(* C18.                                                                    *)
(***************************************************************************)
\* the class of a line by its prefix: lines beginning "+++" or "+" are
\* additions, "---" or "-" removals, "@@" hunk headers, all others plain
ClassOf(line) ==
    IF line # <<>> /\ line[1] = "+" THEN "green"
    ELSE IF line # <<>> /\ line[1] = "-" THEN "red"
    ELSE IF Len(line) >= 2 /\ line[1] = "@" /\ line[2] = "@" THEN "cyan"
    ELSE "plain"

\* C18: display_full_diff prints one line per line of the diff, in input
\* order and with the text unchanged, each in exactly one class decided by
\* its prefix alone: additions, removals, hunk headers, and every other line
\* (empty and context lines included) uncoloured.
C18_ColourByPrefix ==
    (pc = "returned" /\ HasText(env.d.full)) =>
        LET lines == Split(env.d.full[1].val[1], "\n")
            shown == EventsOf("diff")
        IN  /\ Len(shown) = Len(lines)
            /\ \A i \in 1..Len(lines) :
                  /\ shown[i].a[2] = lines[i]
                  /\ shown[i].a[1] = <<ClassOf(lines[i])>>
            /\ \A i \in Events("diff") : \A j \in Events("Full Diff:") : j < i

\* a file header, then a context line that holds "+" after its first
\* character, then the empty line that ends the output
C18_Witness ==
    /\ pc = "returned" /\ HasText(env.d.full)
    /\ Count("diff") = 3
    /\ EventsOf("diff")[1] = Out("diff", << <<"green">>, <<"+", "+", "+", " ", "b">> >>)
    /\ EventsOf("diff")[2] = Out("diff", << <<"plain">>, <<" ", "+", "q">> >>)
    /\ EventsOf("diff")[3] = Out("diff", << <<"plain">>, <<>> >>)

(***************************************************************************)
(* C19.                                                                    *)
(***************************************************************************)
\* C19: in the FastAPI service every DELETE /api/todos/{id} completes with
\* the "Todo deleted" response and deletes the todo: from then on the list
\* holds no todo of that id (GET /api/todos shows none, GET /api/todos/{id}
\* finds none and answers 404) and all other todos are unchanged.
C19_DeleteRemovesTodo ==
    (pc = "fastapi" /\ env.last.op = "delete") =>
        /\ env.last.status = 200
        /\ env.last.body = <<"Todo deleted">>
        /\ env.last.id \notin Ids(env.todos)
        /\ FindTodo(env.todos, env.last.id) = 0
        /\ env.todos = WithoutId(env.prev, env.last.id)

(***************************************************************************)
(* C20.                                                                    *)
(***************************************************************************)
\* C20: in both services, after any sequence of create, toggle and delete
\* requests no two todos of the stored list share an id, and the id a
\* create request returns is that of the todo it appended, strictly greater
\* than every id in the list when the request arrived (1 for an empty list).
C20_IdsUniqueCreateIsGreater ==
    pc \in {"flask", "fastapi"} =>
        /\ \A i \in 1..Len(env.todos) : \A j \in 1..Len(env.todos) :
              i # j => env.todos[i].id # env.todos[j].id
        /\ (env.last.op = "create" /\ env.last.status = 200) =>
              /\ \A id \in Ids(env.prev) : env.last.id > id
              /\ env.prev = <<>> => env.last.id = 1
              /\ env.todos = Append(env.prev, env.last.body[1])
              /\ env.last.body[1].id = env.last.id

\* Flask after two creates and a toggle of the second todo: the create
\* returned 4 for the list 1, 2, 3
C20_Witness ==
    /\ pc = "flask"
    /\ env.last = Exchange("create", 4, 200, <<Todo(4, "new task", FALSE)>>)
    /\ Ids(env.prev) = {1, 2, 3}
    /\ env.todos[2].completed
    /\ Len(env.todos) = 4

=============================================================================
